---- MODULE Spec2Model ----
(***************************************************************************)
(* A model of ecs-one-off-task.py: one invocation of the command-line      *)
(* tool that clones an ECS task definition, registers the clone, ensures   *)
(* the CloudWatch log group, runs the task, waits for it to stop and       *)
(* reports its exit status and output.                                     *)
(*                                                                         *)
(* Encodings.                                                              *)
(*  - A Python value that may be None is a sequence of length at most one: *)
(*    None is <<>>, a value v is <<v>> (Some(v)).                          *)
(*  - A Python dict is a function from its keys (strings) to its values.   *)
(*  - A Python string that the program splits or strips is a sequence of   *)
(*    atoms; an atom is one separator character ("/" or " ") or a run of   *)
(*    characters holding no separator.  split and lstrip are computed on   *)
(*    that sequence as Python computes them on the characters.             *)
(***************************************************************************)
EXTENDS Integers, Sequences, FiniteSets, TLC

\* ---------------------------------------------------------------- bounds

\* Longest --entrypoint string (in atoms) the cloning specification draws.
MaxEntrypointLen == 4

\* Attempts of the tasks_stopped waiter (100 in the SDK, source line 309).
MaxAttempts == 3

\* Most events one get_log_events response holds.
MaxEvents == 2

\* ------------------------------------------------------- Python values

None == <<>>

Some(v) == <<v>>

\* bool(x) of a list or string that may be None
Truthy(o) == o # None /\ o[1] # <<>>

\* d.get(k, None)
Get(d, k) == IF k \in DOMAIN d THEN Some(d[k]) ELSE None

\* del d[k]; the try/except KeyError form leaves d alone when k is absent
Del(d, k) == [x \in DOMAIN d \ {k} |-> d[x]]

\* d.update(e)
Update(d, e) == e @@ d

RECURSIVE SplitFrom(_, _, _)
\* s.split(sep), with cur the token being read: every separator closes a
\* token, the end of the string closes the last one
SplitFrom(s, sep, cur) ==
    IF s = <<>> THEN <<cur>>
    ELSE IF Head(s) = sep THEN <<cur>> \o SplitFrom(Tail(s), sep, <<>>)
    ELSE SplitFrom(Tail(s), sep, Append(cur, Head(s)))

Split(s, sep) == SplitFrom(s, sep, <<>>)

RECURSIVE LStrip(_, _)
\* s.lstrip(ch)
LStrip(s, ch) == IF s # <<>> /\ Head(s) = ch THEN LStrip(Tail(s), ch) ELSE s

\* All sequences over S of length at most n
SeqsUpTo(S, n) == UNION {[1..k -> S] : k \in 0..n}

\* --------------------------------------------------------------- inputs

\* Profiles of the local AWS configuration; any other name raises
\* ProfileNotFound when the session is built.
KnownProfiles == {"default"}

\* session.get_available_regions('ecs')
AvailableRegions == {"us-east-1"}

\* Region of the local AWS configuration, used when --region is not given.
ConfiguredRegion == "us-east-1"

Profiles == {None, Some("default"), Some("nosuch")}

Regions == {None, Some("us-east-1"), Some("mars-1")}

LaunchTypes == {"EC2", "FARGATE"}

\* nargs='*': None when the flag is absent, [] when it has no value
IdLists(id) == {None, Some(<<>>), Some(<<id>>)}

\* --entrypoint strings over the atoms "sh" and " "
EntrypointStrings(n) == SeqsUpTo({"sh", " "}, n)

TaskName == <<"nightly-job">>

ClusterName == <<"cluster-name">>

\* The namespace argparse returns (getOptions)
MkOptions(profile, region, launch, nets, sgs, entry) ==
    [profile |-> profile, region |-> region,
     task_name |-> TaskName, from_task |-> "web-ref",
     cluster |-> ClusterName, image |-> "repo/img:tag",
     entrypoint |-> entry, command |-> <<"python", "job.py">>,
     launch_type |-> launch, networks_id |-> nets,
     security_groups_id |-> sgs]

\* Keys of a describe_task_definition answer that are not always there
OptionalKeys == {"requiresAttributes", "registeredAt", "registeredBy"}

\* Keys the program deletes before it builds the clone
StrippedKeys ==
    {"taskDefinitionArn", "revision", "status", "compatibilities"}
        \cup OptionalKeys

\* The first container of the reference definition; secrets,
\* environmentFiles and environment are each absent, empty or filled.
RefContainer(sec, envf, env) ==
    LET full == [name |-> "web", image |-> "repo/web:1",
                 secrets |-> IF sec = None THEN <<>> ELSE sec[1],
                 environmentFiles |-> IF envf = None THEN <<>> ELSE envf[1],
                 environment |-> IF env = None THEN <<>> ELSE env[1]]
        keys == {"name", "image"}
                  \cup (IF sec = None THEN {} ELSE {"secrets"})
                  \cup (IF envf = None THEN {} ELSE {"environmentFiles"})
                  \cup (IF env = None THEN {} ELSE {"environment"})
    IN  [k \in keys |-> full[k]]

\* A task definition as the registry stores and describes it
RefTaskDef(opt, sec, envf, env, role) ==
    LET full == [taskDefinitionArn |-> "arn:td/web-ref:3",
                 revision |-> 3, status |-> "ACTIVE",
                 compatibilities |-> <<"EC2">>,
                 family |-> "web-ref",
                 containerDefinitions |-> <<RefContainer(sec, envf, env)>>,
                 executionRoleArn |-> IF role = None THEN "" ELSE role[1],
                 requiresAttributes |-> <<"ecs.capability.env-files.s3">>,
                 registeredAt |-> 1620000000,
                 registeredBy |-> "arn:iam/user"]
        keys == {"taskDefinitionArn", "revision", "status",
                 "compatibilities", "family", "containerDefinitions"}
                  \cup opt
                  \cup (IF role = None THEN {} ELSE {"executionRoleArn"})
    IN  [k \in keys |-> full[k]]

SecretsChoices == {None, Some(<<>>), Some(<<"SECRET">>)}

EnvFilesChoices == {None, Some(<<>>), Some(<<"s3://env">>)}

EnvChoices == {None, Some(<<>>), Some(<<"VAR=1">>)}

RoleChoices == {None, Some("arn:iam/role")}

\* Every reference definition the cloning specification draws
AllRefTaskDefs ==
    {RefTaskDef(opt, sec, envf, env, role) :
        opt \in SUBSET OptionalKeys, sec \in SecretsChoices,
        envf \in EnvFilesChoices, env \in EnvChoices, role \in RoleChoices}

\* The reference definitions of the workflow specification
SomeRefTaskDefs ==
    {RefTaskDef({}, None, None, Some(<<>>), None),
     RefTaskDef(OptionalKeys, Some(<<"SECRET">>), Some(<<"s3://env">>),
                Some(<<"VAR=1">>), Some("arn:iam/role"))}

\* Retention of a log group that exists before the run (0: never expire)
RetentionChoices == {0, 7, 30}

\* A log group: absent, or present with a retention in days
LogGroups ==
    {[exists |-> FALSE, retention |-> 0]}
        \cup {[exists |-> TRUE, retention |-> r] : r \in RetentionChoices}

TaskIds == {"abcd1234", "ef567890"}

\* The first container of a stopped task, as describe_tasks shows it: a
\* container that ran has an exitCode, one that never started has a reason
StoppedContainers ==
    {[name |-> "nightly-job", exitCode |-> 0],
     [name |-> "nightly-job", exitCode |-> 1],
     [name |-> "nightly-job", reason |-> "CannotPullContainerError"]}

\* What get_log_events can answer with
EventLists == SeqsUpTo({"line-a", "line-b"}, MaxEvents)

\* ---------------------------------------------------------------- state

VARIABLES
    pc,                       \* the statement the process is at
    argsGiven,                \* whether the command line holds arguments
    options,                  \* the parsed command line
    awsRegion,                \* module-level region of the session
    taskDefs,                 \* remote: the reference task definition
    logGroup,                 \* remote: the log group /ecs/<task-name>
    remoteTask,               \* remote: the task run_task started
    latestActiveTaskDef,      \* the stripped describe_task_definition answer
    containerSecrets, containerEnvFiles, containerEnv, execRoleArn,
    oneOffTaskDef,            \* the document given to register_task_definition
    oneOffTaskDefArn,         \* the ARN register_task_definition returned
    runTaskRequest,           \* the arguments given to run_task
    oneOffTaskRunArn,         \* the ARN of the started task
    attempts,                 \* polls the waiter has made
    oneOffTaskExitCode, oneOffTaskExitCodeReason, oneOffTaskStopeedReason,
    logStreamName,            \* the stream printContainerOutput reads
    logResponse,              \* what get_log_events answered
    stdout,                   \* the lines printed so far
    exitStatus,               \* the process exit status, None while running
    calls                     \* the remote calls made, with their results

vars == <<pc, argsGiven, options, awsRegion, taskDefs, logGroup, remoteTask,
          latestActiveTaskDef, containerSecrets, containerEnvFiles,
          containerEnv, execRoleArn, oneOffTaskDef, oneOffTaskDefArn,
          runTaskRequest, oneOffTaskRunArn, attempts, oneOffTaskExitCode,
          oneOffTaskExitCodeReason, oneOffTaskStopeedReason, logStreamName,
          logResponse, stdout, exitStatus, calls>>

remote == <<taskDefs, logGroup, remoteTask>>

cloneLocals == <<latestActiveTaskDef, containerSecrets, containerEnvFiles,
                 containerEnv, execRoleArn, oneOffTaskDef, oneOffTaskDefArn>>

runLocals == <<runTaskRequest, oneOffTaskRunArn, attempts>>

reportLocals == <<oneOffTaskExitCode, oneOffTaskExitCodeReason,
                  oneOffTaskStopeedReason, logStreamName, logResponse>>

\* The locals of a process that has not assigned any of them yet
Unassigned ==
    /\ awsRegion = None
    /\ remoteTask = None
    /\ latestActiveTaskDef = None
    /\ containerSecrets = None
    /\ containerEnvFiles = None
    /\ containerEnv = None
    /\ execRoleArn = None
    /\ oneOffTaskDef = None
    /\ oneOffTaskDefArn = None
    /\ runTaskRequest = None
    /\ oneOffTaskRunArn = None
    /\ attempts = 0
    /\ oneOffTaskExitCode = None
    /\ oneOffTaskExitCodeReason = None
    /\ oneOffTaskStopeedReason = None
    /\ logStreamName = None
    /\ logResponse = None
    /\ stdout = <<>>
    /\ exitStatus = None
    /\ calls = <<>>

\* The command lines of the workflow specification
WorkflowOptions ==
    {MkOptions(p, r, l, n, s, e) :
        p \in Profiles, r \in Regions, l \in LaunchTypes,
        n \in IdLists("subnet-1"), s \in IdLists("sg-1"),
        e \in {None, Some(<<"sh", " ", "-c">>)}}

\* The process starts in main(); the remote services hold a reference
\* definition and possibly the log group already.
Init ==
    /\ pc = "getOptions"
    /\ \/ /\ argsGiven = TRUE
          /\ options \in WorkflowOptions
       \/ /\ argsGiven = FALSE
          /\ options = MkOptions(None, None, "EC2", None, None, None)
    /\ taskDefs \in SomeRefTaskDefs
    /\ logGroup \in LogGroups
    /\ Unassigned

\* ------------------------------------------------------------ the steps

\* sys.exit(status)
Exit(status) ==
    /\ pc' = "exit"
    /\ exitStatus' = Some(status)

\* An exception nothing catches: the interpreter prints the traceback (to
\* standard error, so stdout is not changed) and exits with status 1.
Raise == Exit(1)

Called(op, result) == calls' = Append(calls, [op |-> op, result |-> result])

\* getOptions.  The command lines drawn hold every required flag and a
\* valid --launch-type, so parse_args returns.
GetOptions ==
    /\ pc = "getOptions"
    /\ \/ /\ ~argsGiven
          /\ Exit(1)
       \/ /\ argsGiven
          /\ pc' = "initializeAwsClients"
          /\ UNCHANGED exitStatus
    /\ UNCHANGED <<argsGiven, options, awsRegion, remote, cloneLocals,
                   runLocals, reportLocals, stdout, calls>>

\* session.region_name
SessionRegion(region) == IF region # None THEN region ELSE Some(ConfiguredRegion)

\* initializeAwsClients
InitializeAwsClients ==
    /\ pc = "initializeAwsClients"
    /\ LET awsProfile == options.profile
           awsRegionOpt == options.region
       IN  \/ /\ awsProfile # None
              /\ awsProfile[1] \notin KnownProfiles
              /\ stdout' = Append(stdout, "error: profile not found")
              /\ Exit(1)
              /\ UNCHANGED awsRegion
           \/ /\ awsProfile = None
              /\ awsRegionOpt # None
              /\ awsRegionOpt[1] \notin AvailableRegions
              /\ stdout' = Append(stdout, "error: not a valid AWS region")
              /\ Exit(1)
              /\ UNCHANGED awsRegion
           \/ /\ awsProfile # None => awsProfile[1] \in KnownProfiles
              /\ (awsProfile = None /\ awsRegionOpt # None)
                    => awsRegionOpt[1] \in AvailableRegions
              /\ awsRegion' = SessionRegion(awsRegionOpt)
              /\ pc' = "createRunTaskDefinition"
              /\ UNCHANGED <<stdout, exitStatus>>
    /\ UNCHANGED <<argsGiven, options, remote, cloneLocals, runLocals,
                   reportLocals, calls>>

\* The FARGATE check with "and" for "or"
NetworkConfigurationMissing_And(opts) ==
    /\ opts.launch_type = "FARGATE"
    /\ ~Truthy(opts.networks_id) /\ ~Truthy(opts.security_groups_id)

\* The FARGATE check: not oneOffTaskNetsId or not oneOffTaskSgsId
NetworkConfigurationMissing(opts) ==
    /\ opts.launch_type = "FARGATE"
    /\ ~Truthy(opts.networks_id) \/ ~Truthy(opts.security_groups_id)

\* createRunTaskDefinition up to its first remote call
CheckNetworkConfiguration ==
    /\ pc = "createRunTaskDefinition"
    /\ \/ /\ NetworkConfigurationMissing(options)
          /\ stdout' = Append(stdout, "Error: network configuration must be provided")
          /\ Exit(1)
       \/ /\ ~NetworkConfigurationMissing(options)
          /\ pc' = "describe_task_definition"
          /\ UNCHANGED <<stdout, exitStatus>>
    /\ UNCHANGED <<argsGiven, options, awsRegion, remote, cloneLocals,
                   runLocals, reportLocals, calls>>

\* The deletions made on the describe_task_definition answer.  The keys
\* deleted without try/except are in every answer of the service.
StripResponse(response) ==
    LET td0 == response.taskDefinition
        td1 == Del(td0, "taskDefinitionArn")
        td2 == Del(td1, "revision")
        td3 == Del(td2, "status")
        td4 == Del(td3, "requiresAttributes")
        td5 == Del(td4, "compatibilities")
        td6 == Del(td5, "registeredAt")
        td7 == Del(td6, "registeredBy")
    IN  Del([response EXCEPT !.taskDefinition = td7], "ResponseMetadata")

\* ecs.describe_task_definition and the reading of the reference container
DescribeTaskDefinition ==
    /\ pc = "describe_task_definition"
    /\ \/ /\ Called("describe_task_definition", "ok")
          /\ LET response == [taskDefinition |-> taskDefs,
                              ResponseMetadata |-> "metadata"]
                 stripped == StripResponse(response)
                 container == stripped.taskDefinition.containerDefinitions[1]
             IN  /\ latestActiveTaskDef' = Some(stripped)
                 /\ containerSecrets' = Get(container, "secrets")
                 /\ containerEnvFiles' = Get(container, "environmentFiles")
                 /\ containerEnv' = Get(container, "environment")
                 /\ execRoleArn' = Get(stripped.taskDefinition, "executionRoleArn")
          /\ pc' = "register_task_definition"
          /\ UNCHANGED exitStatus
       \/ /\ Called("describe_task_definition", "error")
          /\ Raise
          /\ UNCHANGED <<latestActiveTaskDef, containerSecrets,
                         containerEnvFiles, containerEnv, execRoleArn>>
    /\ UNCHANGED <<argsGiven, options, awsRegion, remote, oneOffTaskDef,
                   oneOffTaskDefArn, runLocals, reportLocals, stdout>>

\* f"/ecs/{oneOffTaskName}"
LogGroupName(opts) == <<"/", "ecs", "/">> \o opts.task_name

\* The container of the one-off definition before the optional updates;
\* it is the same for both launch types.
ContainerTemplate(opts, region) ==
    [environmentFiles |-> Some(<<>>),
     secrets |-> Some(<<>>),
     environment |-> Some(<<>>),
     entryPoint |-> <<>>,
     portMappings |-> <<>>,
     command |-> opts.command,
     cpu |-> 128,
     memory |-> 400,
     memoryReservation |-> 300,
     volumesFrom |-> <<>>,
     image |-> opts.image,
     name |-> opts.task_name,
     logConfiguration |->
        [logDriver |-> "awslogs",
         options |-> [group |-> LogGroupName(opts),
                      region |-> region,
                      streamPrefix |-> "ecs"]]]

\* containerEntrypoint.split(' ')
EntryPointTokens(entrypoint) == Split(entrypoint, " ")

\* The four optional updates of the container, in the order of the code
UpdateContainer(c, entrypoint, secrets, envFiles, env) ==
    LET c1 == IF Truthy(entrypoint)
                 THEN Update(c, [entryPoint |-> EntryPointTokens(entrypoint[1])])
                 ELSE c
        c2 == IF Truthy(envFiles)
                 THEN Update(c1, [environmentFiles |-> envFiles])
                 ELSE c1
        c3 == IF Truthy(secrets)
                 THEN Update(c2, [secrets |-> secrets])
                 ELSE c2
        c4 == IF Truthy(envFiles)
                 THEN Update(c3, [environment |-> env])
                 ELSE c3
    IN  c4

\* The Fargate document with "compatibilities" for "requiresCompatibilities"
BuildOneOffTaskDef_Compatibilities(opts, region, secrets, envFiles, env, role) ==
    LET container == UpdateContainer(ContainerTemplate(opts, region),
                                     opts.entrypoint, secrets, envFiles, env)
    IN  IF opts.launch_type = "EC2"
           THEN [executionRoleArn |-> role,
                 containerDefinitions |-> <<container>>,
                 family |-> opts.task_name]
           ELSE [executionRoleArn |-> role,
                 containerDefinitions |-> <<container>>,
                 family |-> opts.task_name,
                 networkMode |-> "awsvpc",
                 compatibilities |-> <<"FARGATE">>,
                 cpu |-> "256",
                 memory |-> "512"]

\* The document given to register_task_definition
BuildOneOffTaskDef(opts, region, secrets, envFiles, env, role) ==
    LET container == UpdateContainer(ContainerTemplate(opts, region),
                                     opts.entrypoint, secrets, envFiles, env)
    IN  IF opts.launch_type = "EC2"
           THEN [executionRoleArn |-> role,
                 containerDefinitions |-> <<container>>,
                 family |-> opts.task_name]
           ELSE [executionRoleArn |-> role,
                 containerDefinitions |-> <<container>>,
                 family |-> opts.task_name,
                 networkMode |-> "awsvpc",
                 requiresCompatibilities |-> <<"FARGATE">>,
                 cpu |-> "256",
                 memory |-> "512"]

\* The ARNs the registry can give the new revision
RegisteredArns == {"arn:td/nightly-job:1", "arn:td/nightly-job:2"}

\* The building of the one-off definition and ecs.register_task_definition
RegisterTaskDefinition ==
    /\ pc = "register_task_definition"
    /\ oneOffTaskDef' = Some(BuildOneOffTaskDef(options, awsRegion,
                                containerSecrets, containerEnvFiles,
                                containerEnv, execRoleArn))
    /\ \/ /\ Called("register_task_definition", "ok")
          /\ \E arn \in RegisteredArns : oneOffTaskDefArn' = Some(arn)
          /\ stdout' = Append(stdout, "==> Created the task definition")
          /\ pc' = "create_log_group"
          /\ UNCHANGED exitStatus
       \/ /\ Called("register_task_definition", "error")
          /\ Raise
          /\ UNCHANGED <<oneOffTaskDefArn, stdout>>
    /\ UNCHANGED <<argsGiven, options, awsRegion, remote, latestActiveTaskDef,
                   containerSecrets, containerEnvFiles, containerEnv,
                   execRoleArn, runLocals, reportLocals>>

\* retentionDays=7, the default of createCloudWatchLogGroup
RetentionDays == 7

\* create_log_group under "except Exception: pass": every error swallowed
CreateLogGroup_SwallowAll ==
    /\ pc = "create_log_group"
    /\ \/ /\ ~logGroup.exists
          /\ Called("create_log_group", "ok")
          /\ logGroup' = [exists |-> TRUE, retention |-> 0]
          /\ pc' = "put_retention_policy"
          /\ UNCHANGED <<stdout, exitStatus>>
       \/ /\ \/ /\ logGroup.exists
                /\ Called("create_log_group", "ResourceAlreadyExistsException")
             \/ Called("create_log_group", "error")
          /\ stdout' = Append(stdout, "Using the CloudWatch Log Group")
          /\ pc' = "run_task"
          /\ UNCHANGED <<logGroup, exitStatus>>
    /\ UNCHANGED <<argsGiven, options, awsRegion, taskDefs, remoteTask,
                   cloneLocals, runLocals, reportLocals>>

\* create_log_group with the retention policy put after the try as well:
\* an existing group gets the policy too
CreateLogGroup_AlwaysRetention ==
    /\ pc = "create_log_group"
    /\ \/ /\ ~logGroup.exists
          /\ Called("create_log_group", "ok")
          /\ logGroup' = [exists |-> TRUE, retention |-> 0]
          /\ pc' = "put_retention_policy"
          /\ UNCHANGED <<stdout, exitStatus>>
       \/ /\ logGroup.exists
          /\ Called("create_log_group", "ResourceAlreadyExistsException")
          /\ pc' = "put_retention_policy"
          /\ UNCHANGED <<logGroup, stdout, exitStatus>>
       \/ /\ Called("create_log_group", "error")
          /\ Raise
          /\ UNCHANGED <<logGroup, stdout>>
    /\ UNCHANGED <<argsGiven, options, awsRegion, taskDefs, remoteTask,
                   cloneLocals, runLocals, reportLocals>>

\* createCloudWatchLogGroup: logs.create_log_group inside the try
CreateLogGroup ==
    /\ pc = "create_log_group"
    /\ \/ /\ ~logGroup.exists
          /\ Called("create_log_group", "ok")
          /\ logGroup' = [exists |-> TRUE, retention |-> 0]
          /\ pc' = "put_retention_policy"
          /\ UNCHANGED <<stdout, exitStatus>>
       \/ \* except ResourceAlreadyExistsException: pass, then the return
          /\ logGroup.exists
          /\ Called("create_log_group", "ResourceAlreadyExistsException")
          /\ stdout' = Append(stdout, "Using the CloudWatch Log Group")
          /\ pc' = "run_task"
          /\ UNCHANGED <<logGroup, exitStatus>>
       \/ /\ Called("create_log_group", "error")
          /\ Raise
          /\ UNCHANGED <<logGroup, stdout>>
    /\ UNCHANGED <<argsGiven, options, awsRegion, taskDefs, remoteTask,
                   cloneLocals, runLocals, reportLocals>>

\* createCloudWatchLogGroup: logs.put_retention_policy and the return
PutRetentionPolicy ==
    /\ pc = "put_retention_policy"
    /\ \/ /\ Called("put_retention_policy", "ok")
          /\ logGroup' = [logGroup EXCEPT !.retention = RetentionDays]
          /\ stdout' = Append(stdout, "Using the CloudWatch Log Group")
          /\ pc' = "run_task"
          /\ UNCHANGED exitStatus
       \/ /\ Called("put_retention_policy", "error")
          /\ Raise
          /\ UNCHANGED <<logGroup, stdout>>
    /\ UNCHANGED <<argsGiven, options, awsRegion, taskDefs, remoteTask,
                   cloneLocals, runLocals, reportLocals>>

\* run_task given the reference definition's name for the new ARN
RunTaskArguments_FromTask(opts, defArn) ==
    IF opts.launch_type = "EC2"
       THEN [cluster |-> opts.cluster, taskDefinition |-> opts.from_task]
       ELSE [cluster |-> opts.cluster, taskDefinition |-> opts.from_task,
             launchType |-> "FARGATE",
             networkConfiguration |->
                [awsvpcConfiguration |->
                    [subnets |-> opts.networks_id,
                     securityGroups |-> opts.security_groups_id,
                     assignPublicIp |-> "DISABLED"]]]

\* The keyword arguments of ecs.run_task
RunTaskArguments(opts, defArn) ==
    IF opts.launch_type = "EC2"
       THEN [cluster |-> opts.cluster, taskDefinition |-> defArn]
       ELSE [cluster |-> opts.cluster, taskDefinition |-> defArn,
             launchType |-> "FARGATE",
             networkConfiguration |->
                [awsvpcConfiguration |->
                    [subnets |-> opts.networks_id,
                     securityGroups |-> opts.security_groups_id,
                     assignPublicIp |-> "DISABLED"]]]

\* arn:aws:ecs:<region>:<account>:task/<cluster>/<task id>
TaskArn(cluster, id) ==
    <<"arn:aws:ecs:region:acct:task", "/">> \o cluster \o <<"/", id>>

\* ecs.run_task and the reading of the task ARN.  The "error" result stands
\* for run_task raising and for an answer with no task, on which
\* response['tasks'][0] raises IndexError.
RunTask ==
    /\ pc = "run_task"
    /\ runTaskRequest' = Some(RunTaskArguments(options, oneOffTaskDefArn[1]))
    /\ \/ /\ Called("run_task", "ok")
          /\ \E id \in TaskIds :
                LET arn == TaskArn(options.cluster, id)
                IN  /\ remoteTask' =
                          Some([taskArn |-> arn, lastStatus |-> "RUNNING",
                                containers |-> <<[name |-> "nightly-job"]>>])
                    /\ oneOffTaskRunArn' = Some(arn)
          /\ stdout' = stdout \o <<"==> Executed task ARN",
                                   "Waiting for the task to finishes...">>
          /\ pc' = "wait"
          /\ UNCHANGED exitStatus
       \/ /\ Called("run_task", "error")
          /\ Raise
          /\ UNCHANGED <<remoteTask, oneOffTaskRunArn, stdout>>
    /\ UNCHANGED <<argsGiven, options, awsRegion, taskDefs, logGroup,
                   cloneLocals, attempts, reportLocals>>

\* The service stops the task while the process waits for it (the process
\* is in the wait from the answer of run_task on).
TaskStops ==
    /\ pc = "wait"
    /\ remoteTask # None
    /\ remoteTask[1].lastStatus = "RUNNING"
    /\ \E c \in StoppedContainers :
          remoteTask' = Some([taskArn |-> remoteTask[1].taskArn,
                              lastStatus |-> "STOPPED",
                              containers |-> <<c>>,
                              stoppedReason |-> "Essential container in task exited"])
    /\ UNCHANGED <<pc, argsGiven, options, awsRegion, taskDefs, logGroup,
                   cloneLocals, runLocals, reportLocals, stdout, exitStatus,
                   calls>>

\* A wait that returns when its attempts are used up instead of raising
WaiterPoll_ReturnsAtBound ==
    /\ pc = "wait"
    /\ attempts < MaxAttempts
    /\ \/ /\ remoteTask[1].lastStatus = "STOPPED"
          /\ attempts' = attempts + 1
          /\ Called("wait", "ok")
          /\ pc' = "describe_tasks"
          /\ UNCHANGED exitStatus
       \/ /\ remoteTask[1].lastStatus # "STOPPED"
          /\ attempts + 1 < MaxAttempts
          /\ attempts' = attempts + 1
          /\ UNCHANGED <<pc, exitStatus, calls>>
       \/ /\ remoteTask[1].lastStatus # "STOPPED"
          /\ attempts + 1 = MaxAttempts
          /\ attempts' = attempts + 1
          /\ Called("wait", "ok")
          /\ pc' = "describe_tasks"
          /\ UNCHANGED exitStatus
       \/ /\ attempts' = attempts + 1
          /\ Called("wait", "error")
          /\ Raise
    /\ UNCHANGED <<argsGiven, options, awsRegion, remote, cloneLocals,
                   runTaskRequest, oneOffTaskRunArn, reportLocals, stdout>>

\* waiter.wait: one poll of the tasks_stopped waiter.  The call is recorded
\* with its result when the wait ends.
WaiterPoll ==
    /\ pc = "wait"
    /\ attempts < MaxAttempts
    /\ \/ /\ remoteTask[1].lastStatus = "STOPPED"
          /\ attempts' = attempts + 1
          /\ Called("wait", "ok")
          /\ pc' = "describe_tasks"
          /\ UNCHANGED exitStatus
       \/ /\ remoteTask[1].lastStatus # "STOPPED"
          /\ attempts + 1 < MaxAttempts
          /\ attempts' = attempts + 1
          /\ UNCHANGED <<pc, exitStatus, calls>>
       \/ \* WaiterError: Max attempts exceeded
          /\ remoteTask[1].lastStatus # "STOPPED"
          /\ attempts + 1 = MaxAttempts
          /\ attempts' = attempts + 1
          /\ Called("wait", "max attempts exceeded")
          /\ Raise
       \/ \* WaiterError: the poll itself failed
          /\ attempts' = attempts + 1
          /\ Called("wait", "error")
          /\ Raise
    /\ UNCHANGED <<argsGiven, options, awsRegion, remote, cloneLocals,
                   runTaskRequest, oneOffTaskRunArn, reportLocals, stdout>>

\* ecs.describe_tasks and the reading of the exit code and the reasons
DescribeTasks ==
    /\ pc = "describe_tasks"
    /\ \/ /\ Called("describe_tasks", "ok")
          /\ LET task == remoteTask[1]
             IN  /\ oneOffTaskExitCode' = Get(task.containers[1], "exitCode")
                 /\ oneOffTaskExitCodeReason' = Get(task.containers[1], "reason")
                 /\ oneOffTaskStopeedReason' = Get(task, "stoppedReason")
          /\ pc' = "report"
          /\ UNCHANGED exitStatus
       \/ /\ Called("describe_tasks", "error")
          /\ Raise
          /\ UNCHANGED <<oneOffTaskExitCode, oneOffTaskExitCodeReason,
                         oneOffTaskStopeedReason>>
    /\ UNCHANGED <<argsGiven, options, awsRegion, remote, cloneLocals,
                   runLocals, logStreamName, logResponse, stdout>>

\* The success test with the comparison to 0 lost: not oneOffTaskExitCode
ExitCodeIsSuccess_NotOnly(exitCode) == exitCode = None \/ exitCode[1] = 0

\* oneOffTaskExitCode == 0 and not oneOffTaskExitCode.  None == 0 is False
\* in Python; not x is True for None and for 0.
ExitCodeIsSuccess(exitCode) ==
    /\ exitCode # None /\ exitCode[1] = 0
    /\ exitCode = None \/ exitCode[1] = 0

\* The if/else on the exit code, up to the call of printContainerOutput
Report ==
    /\ pc = "report"
    /\ \/ /\ ExitCodeIsSuccess(oneOffTaskExitCode)
          /\ stdout' = Append(stdout, "==> The one-off task process has finished correctly!!")
          /\ pc' = "printContainerOutput_success"
       \/ /\ ~ExitCodeIsSuccess(oneOffTaskExitCode)
          /\ stdout' = stdout \o <<"==> The one-off task has failed!!",
                                   "Container exit code",
                                   "Container exit reason",
                                   "Stopped reason">>
          /\ pc' = "printContainerOutput_failure"
    /\ UNCHANGED <<argsGiven, options, awsRegion, remote, cloneLocals,
                   runLocals, reportLocals, exitStatus, calls>>

\* The task id taken from the wrong segment: taskArn.split('/')[1]
TaskIdOf_Segment1(taskArn) == Split(taskArn, "/")[2]

\* taskArn.split('/')[2]; the ARNs of run_task have three segments
TaskIdOf(taskArn) == Split(taskArn, "/")[3]

\* logGroupName.lstrip('/') + "/" + taskId
LogStreamNameOf(logGroupName, taskArn) ==
    LStrip(logGroupName, "/") \o <<"/">> \o TaskIdOf(taskArn)

\* The lines printContainerOutput prints for the events of an answer
ContainerOutput(events) ==
    IF events # <<>> THEN <<"Container output: ">> \o events
                     ELSE <<"Container output: None">>

\* printContainerOutput, and the sys.exit that follows it in either branch
PrintContainerOutput ==
    /\ pc \in {"printContainerOutput_success", "printContainerOutput_failure"}
    /\ logStreamName' =
          Some(LogStreamNameOf(LogGroupName(options), oneOffTaskRunArn[1]))
    /\ \/ /\ \E events \in EventLists :
                /\ logResponse' = Some(events)
                /\ stdout' = stdout \o ContainerOutput(events)
          /\ Called("get_log_events", "ok")
          /\ Exit(IF pc = "printContainerOutput_success" THEN 0 ELSE 1)
       \/ /\ Called("get_log_events", "ResourceNotFoundException")
          /\ stdout' = Append(stdout, "Container output: None")
          /\ Exit(IF pc = "printContainerOutput_success" THEN 0 ELSE 1)
          /\ UNCHANGED logResponse
       \/ /\ Called("get_log_events", "error")
          /\ Raise
          /\ UNCHANGED <<logResponse, stdout>>
    /\ UNCHANGED <<argsGiven, options, awsRegion, remote, cloneLocals,
                   runLocals, oneOffTaskExitCode, oneOffTaskExitCodeReason,
                   oneOffTaskStopeedReason>>

\* ------------------------------------------------------- specifications

Next ==
    \/ GetOptions
    \/ InitializeAwsClients
    \/ CheckNetworkConfiguration
    \/ DescribeTaskDefinition
    \/ RegisterTaskDefinition
    \/ CreateLogGroup
    \/ PutRetentionPolicy
    \/ RunTask
    \/ TaskStops
    \/ WaiterPoll
    \/ DescribeTasks
    \/ Report
    \/ PrintContainerOutput

\* One invocation of the tool
Spec == Init /\ [][Next]_vars

\* The same, with the process taking its next step as long as it has one:
\* the interpreter runs the statements in sequence and every remote call
\* returns or raises (the SDK's timeouts).
LiveSpec == Spec /\ WF_vars(Next)

\* The command lines of the cloning specification: every --entrypoint
\* string up to MaxEntrypointLen atoms, both launch types, and the command
\* lines that stop before the first remote call.
CloneOptions ==
    {MkOptions(p, r, l, n, n, e) :
        p \in {None, Some("nosuch")}, r \in {None, Some("mars-1")},
        l \in LaunchTypes, n \in {None, Some(<<"id-1">>)},
        e \in {None} \cup {Some(t) : t \in EntrypointStrings(MaxEntrypointLen)}}

InitClone ==
    /\ pc = "getOptions"
    /\ \/ /\ argsGiven = TRUE
          /\ options \in CloneOptions
       \/ /\ argsGiven = FALSE
          /\ options = MkOptions(None, None, "EC2", None, None, None)
    /\ taskDefs \in AllRefTaskDefs
    /\ logGroup = [exists |-> FALSE, retention |-> 0]
    /\ Unassigned

\* The steps up to the registration of the clone
NextClone ==
    \/ GetOptions
    \/ InitializeAwsClients
    \/ CheckNetworkConfiguration
    \/ DescribeTaskDefinition
    \/ RegisterTaskDefinition

\* The cloning of the reference definition: the program from its start to
\* the answer of register_task_definition, over every reference definition
\* and entrypoint string of the bounds
CloneSpec == InitClone /\ [][NextClone]_vars

\* --------------------------------------------------------------- claims

InSeq(x, s) == \E i \in 1..Len(s) : s[i] = x

\* The names of the remote calls made so far, in order
Ops == [i \in 1..Len(calls) |-> calls[i].op]

\* The call of op was made and ended with result
Ended(op, result) == InSeq([op |-> op, result |-> result], calls)

SuccessHeader == "==> The one-off task process has finished correctly!!"

FailureHeader == "==> The one-off task has failed!!"

\* describe_tasks has answered: the exit code has been read
ExitCodeRead == Ended("describe_tasks", "ok")

\* The if/else on the exit code has been passed
Reported ==
    pc \in {"printContainerOutput_success", "printContainerOutput_failure"}
       \/ (pc = "exit" /\ InSeq("get_log_events", Ops))

\* The last n lines of stdout
LastLines(n) == SubSeq(stdout, Len(stdout) - n + 1, Len(stdout))

\* printContainerOutput has printed the container output
OutputPrinted ==
    \/ /\ Ended("get_log_events", "ResourceNotFoundException")
       /\ LastLines(1) = <<"Container output: None">>
    \/ /\ Ended("get_log_events", "ok")
       /\ logResponse = Some(<<>>)
       /\ LastLines(1) = <<"Container output: None">>
    \/ /\ Ended("get_log_events", "ok")
       /\ logResponse # None /\ logResponse[1] # <<>>
       /\ LastLines(Len(logResponse[1]) + 1)
             = <<"Container output: ">> \o logResponse[1]

\* C1 as stated: once the run has ended after the exit code was read, an
\* exit code of exactly 0 means the success report, the container output
\* and exit status 0; every other exit code (None, non-zero) means the
\* failure report with its three lines, the container output and status 1.
C1_AsStated ==
    (pc = "exit" /\ ExitCodeRead) =>
        IF oneOffTaskExitCode = Some(0)
           THEN /\ InSeq(SuccessHeader, stdout) /\ ~InSeq(FailureHeader, stdout)
                /\ OutputPrinted
                /\ exitStatus = Some(0)
           ELSE /\ InSeq(FailureHeader, stdout) /\ ~InSeq(SuccessHeader, stdout)
                /\ InSeq("Container exit code", stdout)
                /\ InSeq("Container exit reason", stdout)
                /\ InSeq("Stopped reason", stdout)
                /\ OutputPrinted
                /\ exitStatus = Some(1)

\* C1 amended: the branch taken after the wait is the success branch if and
\* only if the exit code read is exactly 0, and the failure branch (with
\* its three lines) for None and every non-zero code; the run then ends
\* with status 0 if and only if the success branch was taken and
\* get_log_events answered or raised ResourceNotFoundException, and with
\* status 1 otherwise; the container output is printed unless
\* get_log_events raised another error.
C1_SuccessIffExitCodeZero ==
    /\ Reported =>
          /\ InSeq(SuccessHeader, stdout) <=> oneOffTaskExitCode = Some(0)
          /\ InSeq(FailureHeader, stdout) <=> oneOffTaskExitCode # Some(0)
          /\ InSeq(FailureHeader, stdout) =>
                /\ InSeq("Container exit code", stdout)
                /\ InSeq("Container exit reason", stdout)
                /\ InSeq("Stopped reason", stdout)
    /\ (pc = "exit" /\ ExitCodeRead) =>
          /\ exitStatus = Some(0) <=>
                /\ oneOffTaskExitCode = Some(0)
                /\ ~Ended("get_log_events", "error")
          /\ exitStatus # Some(0) => exitStatus = Some(1)
          /\ ~Ended("get_log_events", "error") => OutputPrinted

\* C1 witness: a task that exited with code 0 was reported as finished
\* correctly, its output printed, and the process left with status 0.
C1_Witness ==
    /\ pc = "exit"
    /\ oneOffTaskExitCode = Some(0)
    /\ InSeq(SuccessHeader, stdout)
    /\ OutputPrinted
    /\ exitStatus = Some(0)

\* The command line asks for FARGATE and leaves out, or gives empty, the
\* subnets or the security groups (written out on the values argparse
\* yields, not through the program's own test)
FargateWithoutNetwork ==
    /\ argsGiven
    /\ options.launch_type = "FARGATE"
    /\ \/ options.networks_id \in {None, Some(<<>>)}
       \/ options.security_groups_id \in {None, Some(<<>>)}

NetworkErrorLine == "Error: network configuration must be provided"

\* C2: a FARGATE run without subnets or without security groups never
\* makes a remote call and never gets past the network check, which ends
\* it with the error message and exit status 1 (any earlier exit is with
\* status 1 too); an EC2 run always passes the network check and goes on
\* to describe_task_definition, whatever identifiers it was given.
C2_FargateNeedsNetwork ==
    /\ [](FargateWithoutNetwork =>
            /\ calls = <<>>
            /\ pc \in {"getOptions", "initializeAwsClients",
                       "createRunTaskDefinition", "exit"}
            /\ pc = "exit" => exitStatus = Some(1))
    /\ [][(pc = "createRunTaskDefinition" /\ FargateWithoutNetwork) =>
            /\ pc' = "exit"
            /\ exitStatus' = Some(1)
            /\ stdout' = Append(stdout, NetworkErrorLine)]_vars
    /\ [][(pc = "createRunTaskDefinition" /\ options.launch_type = "EC2") =>
            /\ pc' = "describe_task_definition"
            /\ exitStatus' = None
            /\ stdout' = stdout]_vars
    /\ []((options.launch_type = "EC2" \/ ~argsGiven)
            => ~InSeq(NetworkErrorLine, stdout))

\* C2 witness: a FARGATE run given security groups and an empty subnet list
\* was ended by the network check with status 1 and no remote call.
C2_Witness ==
    /\ pc = "exit"
    /\ options.launch_type = "FARGATE"
    /\ options.networks_id = Some(<<>>)
    /\ options.security_groups_id = Some(<<"sg-1">>)
    /\ InSeq(NetworkErrorLine, stdout)
    /\ exitStatus = Some(1)
    /\ calls = <<>>

\* C6: when create_log_group raises ResourceAlreadyExistsException (the
\* group exists) createCloudWatchLogGroup returns and run_task is the next
\* call; every other error of create_log_group or put_retention_policy
\* ends the process with status 1 and run_task is never called.
C6_OnlyAlreadyExistsSuppressed ==
    /\ Ended("create_log_group", "ResourceAlreadyExistsException") =>
          /\ Ops[Len(Ops)] = "create_log_group" => pc = "run_task"
          /\ Ops[Len(Ops)] # "create_log_group" => Ops[4] = "run_task"
          /\ InSeq("Using the CloudWatch Log Group", stdout)
    /\ (pc = "create_log_group" /\ logGroup.exists) =>
          ENABLED (CreateLogGroup /\ pc' = "run_task")
    /\ (Ended("create_log_group", "error")
           \/ Ended("put_retention_policy", "error")) =>
          /\ pc = "exit"
          /\ exitStatus = Some(1)
          /\ ~InSeq("run_task", Ops)
          /\ ~InSeq("Using the CloudWatch Log Group", stdout)

\* C6 witness: the group existed, the conflict was swallowed and the task
\* was run.
C6_Witness ==
    /\ Ended("create_log_group", "ResourceAlreadyExistsException")
    /\ Ended("run_task", "ok")

\* C7: the stream read is "ecs/<task-name>/<task id>", the task id being
\* the last segment of the ARN run_task returned; when the stream is
\* missing or holds no event the last line printed is "Container output:
\* None", and otherwise the header and every event follow in the order of
\* the answer.
C7_LogStreamAndOutput ==
    /\ logStreamName # None =>
          \E id \in TaskIds :
             /\ remoteTask[1].taskArn
                   = <<"arn:aws:ecs:region:acct:task", "/", "cluster-name", "/", id>>
             /\ logStreamName[1] = <<"ecs", "/", "nightly-job", "/", id>>
    /\ Ended("get_log_events", "ResourceNotFoundException") =>
          LastLines(1) = <<"Container output: None">>
    /\ (Ended("get_log_events", "ok") /\ logResponse[1] = <<>>) =>
          LastLines(1) = <<"Container output: None">>
    /\ (Ended("get_log_events", "ok") /\ logResponse[1] # <<>>) =>
          /\ LastLines(Len(logResponse[1]) + 1)
                = <<"Container output: ">> \o logResponse[1]
          /\ ~InSeq("Container output: None", stdout)

\* C7 witness: two events were printed in the order of the answer, read
\* from the stream of task abcd1234.
C7_Witness ==
    /\ pc = "exit"
    /\ logStreamName = Some(<<"ecs", "/", "nightly-job", "/", "abcd1234">>)
    /\ logResponse = Some(<<"line-b", "line-a">>)
    /\ LastLines(3) = <<"Container output: ", "line-b", "line-a">>

\* The remote operations of a run in which the log group is created
FullOrder ==
    <<"describe_task_definition", "register_task_definition",
      "create_log_group", "put_retention_policy", "run_task", "wait",
      "describe_tasks", "get_log_events">>

\* The remote operations of a run that finds the log group in place
OrderWithoutRetention ==
    <<"describe_task_definition", "register_task_definition",
      "create_log_group", "run_task", "wait", "describe_tasks",
      "get_log_events">>

IsPrefix(s, t) == Len(s) <= Len(t) /\ s = SubSeq(t, 1, Len(s))

\* A result after which the program goes on
GoesOn(result) == result \in {"ok", "ResourceAlreadyExistsException",
                              "ResourceNotFoundException"}

\* C8: the remote calls of a run are a prefix of the fixed order (with
\* put_retention_policy left out exactly when create_log_group met an
\* existing group), so each is made at most once; a call that failed is
\* the last one and the process has ended with status 1; run_task is given
\* the ARN that a successful register_task_definition returned, and is
\* called only when the log group exists.
C8_FixedOrder ==
    /\ IF Ended("create_log_group", "ResourceAlreadyExistsException")
          THEN IsPrefix(Ops, OrderWithoutRetention)
          ELSE IsPrefix(Ops, FullOrder)
    /\ \A i \in 1..Len(calls) :
          /\ i < Len(calls) => GoesOn(calls[i].result)
          /\ ~GoesOn(calls[i].result) => pc = "exit" /\ exitStatus = Some(1)
    /\ runTaskRequest # None =>
          /\ InSeq("run_task", Ops)
          /\ Ended("register_task_definition", "ok")
          /\ oneOffTaskDefArn # None
          /\ oneOffTaskDefArn[1] \in RegisteredArns
          /\ runTaskRequest[1].taskDefinition = oneOffTaskDefArn[1]
          /\ runTaskRequest[1].cluster = options.cluster
          /\ logGroup.exists
    /\ InSeq("run_task", Ops) => runTaskRequest # None

\* C8 witness: a run that made all eight calls, in the fixed order.
C8_Witness == Ops = FullOrder /\ pc = "exit"

\* The process has returned from createCloudWatchLogGroup
LogGroupEnsured ==
    pc = "run_task" \/ InSeq("run_task", Ops)

\* C10: put_retention_policy is called only after this run's own
\* create_log_group succeeded, never when it met an existing group; the
\* remote group changes only by that creation (no retention: never
\* expire) and by that put_retention_policy (7 days), so a group that
\* existed keeps the retention it had; after the return the group exists.
C10_RetentionOnlyWhenCreated ==
    /\ []((pc = "put_retention_policy" \/ InSeq("put_retention_policy", Ops))
            => Ended("create_log_group", "ok"))
    /\ [](Ended("create_log_group", "ResourceAlreadyExistsException")
            => ~InSeq("put_retention_policy", Ops))
    /\ [](LogGroupEnsured => logGroup.exists)
    /\ [](LogGroupEnsured /\ Ended("create_log_group", "ok")
            => logGroup.retention = 7)
    /\ [][logGroup' # logGroup =>
            \/ /\ pc = "create_log_group"
               /\ ~logGroup.exists
               /\ logGroup' = [exists |-> TRUE, retention |-> 0]
               /\ Ended("create_log_group", "ok")'
            \/ /\ pc = "put_retention_policy"
               /\ logGroup' = [exists |-> TRUE, retention |-> 7]
               /\ Ended("put_retention_policy", "ok")']_vars
    /\ [][logGroup.exists /\ pc = "create_log_group"
            => logGroup' = logGroup]_vars

\* C10 witness: the group existed with a retention of 30 days, the call
\* returned, and the retention is still 30 days.
C10_Witness ==
    /\ Ended("create_log_group", "ResourceAlreadyExistsException")
    /\ LogGroupEnsured
    /\ logGroup = [exists |-> TRUE, retention |-> 30]

\* The first container of the reference definition in the registry
ReferenceContainer == taskDefs.containerDefinitions[1]

\* The container of the document given to register_task_definition
RegisteredContainer == oneOffTaskDef[1].containerDefinitions[1]

\* What the registered container must hold for a list field of the
\* reference container: the reference's list when it is there and not
\* empty, the empty list otherwise
CarriedForward(field) ==
    IF field \in DOMAIN ReferenceContainer /\ ReferenceContainer[field] # <<>>
       THEN Some(ReferenceContainer[field])
       ELSE Some(<<>>)

\* C3 as stated: in the document given to register_task_definition each of
\* secrets, environmentFiles and environment equals the reference
\* container's list when that list is present and not empty, and is the
\* empty list otherwise, each field on its own.
C3_AsStated ==
    oneOffTaskDef # None =>
        /\ RegisteredContainer.secrets = CarriedForward("secrets")
        /\ RegisteredContainer.environmentFiles = CarriedForward("environmentFiles")
        /\ RegisteredContainer.environment = CarriedForward("environment")

\* C4: the document given to register_task_definition, its container and
\* the stripped answer it was built from hold none of taskDefinitionArn,
\* revision, status, compatibilities, requiresAttributes, registeredAt and
\* registeredBy, whichever of the optional ones the reference had.
C4_NoServerAssignedFields ==
    /\ oneOffTaskDef # None =>
          /\ DOMAIN oneOffTaskDef[1] \cap StrippedKeys = {}
          /\ DOMAIN RegisteredContainer \cap StrippedKeys = {}
    /\ latestActiveTaskDef # None =>
          /\ DOMAIN latestActiveTaskDef[1].taskDefinition \cap StrippedKeys = {}
          /\ DOMAIN latestActiveTaskDef[1].taskDefinition
                = DOMAIN taskDefs \ StrippedKeys
          /\ "ResponseMetadata" \notin DOMAIN latestActiveTaskDef[1]

\* C4 witness: a FARGATE clone was registered from a reference definition
\* that had all three optional fields.
C4_Witness ==
    /\ Ended("register_task_definition", "ok")
    /\ options.launch_type = "FARGATE"
    /\ OptionalKeys \subseteq DOMAIN taskDefs
    /\ "requiresCompatibilities" \in DOMAIN oneOffTaskDef[1]

\* The tokens of s.split(): the runs of non-space atoms
WhitespaceTokens(s) == SelectSeq(Split(s, " "), LAMBDA t : t # <<>>)

\* C5 as stated: with an entrypoint string the registered entryPoint is
\* the list of its whitespace-separated tokens, none of them empty, and
\* without one it is the empty list.
C5_AsStated ==
    oneOffTaskDef # None =>
        /\ options.entrypoint # None =>
              /\ RegisteredContainer.entryPoint
                    = WhitespaceTokens(options.entrypoint[1])
              /\ ~InSeq(<<>>, RegisteredContainer.entryPoint)
        /\ options.entrypoint = None =>
              RegisteredContainer.entryPoint = <<>>

\* A remote call up to and including the wait has failed
FailedBeforeDescribeTasks ==
    \E i \in 1..Len(calls) :
       /\ ~GoesOn(calls[i].result)
       /\ calls[i].op \notin {"describe_tasks", "get_log_events"}

\* Some remote call has failed
SomeCallFailed == \E i \in 1..Len(calls) : ~GoesOn(calls[i].result)

\* The success and failure reports printed so far
ReportHeaders ==
    {i \in 1..Len(stdout) : stdout[i] \in {SuccessHeader, FailureHeader}}

\* The task as the service holds it was seen stopped by the wait
ObservedStopped ==
    /\ Ended("wait", "ok")
    /\ remoteTask # None
    /\ remoteTask[1].lastStatus = "STOPPED"

\* C9 as stated (its safety part): the wait polls at most MaxAttempts
\* times; a run whose wait saw the task stopped calls describe_tasks,
\* prints exactly one report and ends with status 0 or 1; a run in which
\* the wait gave up or any remote call failed ends with status 1 without
\* calling describe_tasks and without a report; a report is printed only
\* for a task seen stopped.
C9_AsStated ==
    /\ attempts <= MaxAttempts
    /\ (pc = "exit" /\ Ended("wait", "ok")) =>
          /\ InSeq("describe_tasks", Ops)
          /\ Cardinality(ReportHeaders) = 1
          /\ exitStatus \in {Some(0), Some(1)}
    /\ SomeCallFailed =>
          /\ pc = "exit"
          /\ exitStatus = Some(1)
          /\ ~InSeq("describe_tasks", Ops)
          /\ ReportHeaders = {}
    /\ ReportHeaders # {} => ObservedStopped

C9_Safety ==
    /\ attempts <= MaxAttempts
    /\ Ended("wait", "max attempts exceeded") => attempts = MaxAttempts
    /\ pc = "exit" => exitStatus \in {Some(0), Some(1)}
    /\ Ended("wait", "ok") =>
          pc = "describe_tasks" \/ InSeq("describe_tasks", Ops)
    /\ (pc = "exit" /\ Ended("describe_tasks", "ok")) =>
          Cardinality(ReportHeaders) = 1
    /\ FailedBeforeDescribeTasks =>
          /\ pc = "exit"
          /\ exitStatus = Some(1)
          /\ ~InSeq("describe_tasks", Ops)
          /\ ReportHeaders = {}
    /\ Ended("describe_tasks", "error") =>
          /\ pc = "exit"
          /\ exitStatus = Some(1)
          /\ ReportHeaders = {}
    /\ Ended("get_log_events", "error") =>
          /\ pc = "exit"
          /\ exitStatus = Some(1)
          /\ Cardinality(ReportHeaders) = 1
    /\ ReportHeaders # {} =>
          /\ ObservedStopped
          /\ Ended("describe_tasks", "ok")

\* C9 amended: every run terminates; the wait polls at most MaxAttempts
\* times; when it sees the task stopped describe_tasks is called, and when
\* describe_tasks answers exactly one report is printed and the run ends
\* with status 0 or 1; when the wait gives up at the bound, or a remote
\* call up to and including the wait fails, the run ends with status 1
\* without calling describe_tasks and without a report; when
\* describe_tasks itself fails the run ends with status 1 without a
\* report; when get_log_events fails the run ends with status 1 after the
\* report was printed; a report is printed only for a task seen stopped.
C9_TerminatesAndReportsOnStopped ==
    /\ <>(pc = "exit")
    /\ []C9_Safety

\* C9 witness: the task did not stop within the bound and the run ended
\* with status 1, with no describe_tasks call and no report.
C9_Witness ==
    /\ pc = "exit"
    /\ Ended("wait", "max attempts exceeded")
    /\ attempts = MaxAttempts
    /\ remoteTask[1].lastStatus = "RUNNING"
    /\ exitStatus = Some(1)
    /\ ~InSeq("describe_tasks", Ops)
    /\ ReportHeaders = {}

====
